---- MODULE Spec2Model ----
(***************************************************************************)
(* Model of zoom_emoji_sender.py and get_access_token.py:                  *)
(*  - the batch reaction sender ZoomEmojiSender.spam_emojis with the       *)
(*    calls it makes (add_emoji_reaction, _handle_response,                *)
(*    emoji_to_unicode): Spec, ScenarioSpec;                               *)
(*  - emoji_to_unicode on its own: EncoderSpec;                            *)
(*  - the paged listings list_chat_channels / list_recent_messages:        *)
(*    PagerSpec;                                                           *)
(*  - the choice of the message in main, up to the batch: SelectorSpec;    *)
(*  - the token bootstrap of get_access_token.py with its listener         *)
(*    thread: BootstrapSpec.                                               *)
(* Each specification moves the variables of its part and leaves the       *)
(* others at rest.                                                         *)
(*                                                                         *)
(* Texts are TLA+ strings; a reaction symbol is the sequence of its        *)
(* codepoints; an Optional[str] is a sequence of at most one string        *)
(* (<<>> is None); the sleep times are multiples of one time unit.         *)
(***************************************************************************)
EXTENDS Integers, Sequences, FiniteSets, TLC

VARIABLES
    user_id,        \* argument of spam_emojis
    message_id,     \* argument of spam_emojis
    emojis,         \* argument of spam_emojis: the list of symbols
    delay,          \* argument of spam_emojis
    to_contact,     \* argument of spam_emojis
    to_channel,     \* argument of spam_emojis
    max_retries,    \* argument of spam_emojis
    pc,             \* position in spam_emojis: "for", "while", "returned", "raised"
    idx,            \* position of the for loop in emojis (0 before the first)
    success,        \* local of spam_emojis
    retry_count,    \* local of spam_emojis
    results,        \* local of spam_emojis, the value returned
    request,        \* JSON body of the last PATCH sent (<<>> before the first)
    sent,           \* history: number of requests sent for the current symbol
    kinds,          \* history: kinds of the responses to the current symbol
    last_kind,      \* history: kind of the response the symbol is being
                    \* retried after ("" if it is not being retried)
    attempted,      \* history: number of symbols a request was sent for
    total,          \* history: number of requests sent in the batch
    slept           \* history: time slept since the last request was answered

\* emoji_to_unicode and the request body add_emoji_reaction builds with it
VARIABLES
    symbol,         \* the argument: a reaction symbol
    wire,           \* the string emoji_to_unicode returned ("" before the call)
    body,           \* JSON body of the PATCH built from it (<<>> before)
    epc             \* "idle", "start", "encoded", "sent"

\* list_chat_channels and list_recent_messages against a paged listing
VARIABLES
    listing,        \* "channels" or "messages": the method called
    pages,          \* the pages the server holds for the listing
    all_items,      \* local all_channels / all_messages, the value returned
    next_page_token,\* local of the method
    fetched,        \* history: next_page_token parameter of each request
    ppc             \* "idle", "loop", "returned", "raised"

\* get_access_token.main, its listener thread and OAuthCallbackHandler
VARIABLES
    client_id,          \* input of main
    client_secret,      \* input of main
    mpc,                \* position of main: "idle", "input", "join", "check",
                        \* "exchange", "save", "returned", "interrupted",
                        \* "crashed"
    server_thread,      \* "none", "waiting" (in handle_request for a
                        \* connection), "handling" and "responding" (in
                        \* do_GET), "done", "failed"
    query_components,   \* local of do_GET (<<>> before a request)
    authorization_code, \* OAuthCallbackHandler.authorization_code
    socket,             \* the listening socket of server: "unbound",
                        \* "listening", "closed"
    token_data,         \* local of main (<<>> before the exchange)
    env_file,           \* content of .env (<<>>: not written)
    timed_out,          \* history: the join ended by its timeout
    flow                \* history: how main ended

\* main of zoom_emoji_sender.py: the choice of the message to react to.
\* Its locals user_id, message_id, to_channel, to_contact and emojis are the
\* arguments it passes to spam_emojis and are kept in those variables
\* (message_id = None is kept as "").
VARIABLES
    spc,            \* position of main: "idle", "start", "choice",
                    \* "msg_num_all", "channel_num", "msg_num_channel",
                    \* "message_id", "emoji", "calling", "returned"
    choice,         \* local of main
    channels,       \* local of main
    messages,       \* local of main: the messages displayed
    entry           \* history: the last number entered at a list

sender == <<user_id, message_id, emojis, delay, to_contact, to_channel,
            max_retries, pc, idx, success, retry_count, results, request,
            sent, kinds, last_kind, attempted, total, slept>>

encoder == <<symbol, wire, body, epc>>

pager == <<listing, pages, all_items, next_page_token, fetched, ppc>>

bootstrap == <<client_id, client_secret, mpc, server_thread,
               query_components, authorization_code, socket, token_data,
               env_file, timed_out, flow>>

selector == <<spc, choice, channels, messages, entry>>

vars == <<sender, encoder, pager, bootstrap, selector>>

\* the variables spam_emojis leaves alone
notSender == <<encoder, pager, bootstrap, selector>>

\* the variables emoji_to_unicode and the building of the body leave alone
notEncoder == <<sender, pager, bootstrap, selector>>

\* the variables the listing methods leave alone
notPager == <<sender, encoder, bootstrap, selector>>

\* the variables the token bootstrap leaves alone
notBootstrap == <<sender, encoder, pager, selector>>

\* the variables main leaves alone
notSelector == <<encoder, pager, bootstrap>>

args == <<user_id, message_id, emojis, delay, to_contact, to_channel,
          max_retries>>

----------------------------------------------------------------------------
(* Bounds of the model *)

MaxEmojis == 2
MaxRetriesBound == 1

(* Defaults of spam_emojis *)

DefaultMaxRetries == 3
DefaultDelay == 1

----------------------------------------------------------------------------
(* Text helpers *)

Contains(text, sub) ==
    \E i \in 1..(Len(text) - Len(sub) + 1) :
        SubSeq(text, i, i + Len(sub) - 1) = sub

\* variant: the digits of format spec "x"
HexDigit_Lower(d) == SubSeq("0123456789abcdef", d + 1, d + 1)

\* the digits of format spec "X"
HexDigit(d) == SubSeq("0123456789ABCDEF", d + 1, d + 1)

RECURSIVE UpperHex(_)
UpperHex(n) ==
    IF n < 16 THEN HexDigit(n)
    ELSE UpperHex(n \div 16) \o HexDigit(n % 16)

RECURSIVE Join(_, _)
Join(sep, parts) ==
    IF parts = <<>> THEN ""
    ELSE IF Len(parts) = 1 THEN parts[1]
    ELSE parts[1] \o sep \o Join(sep, Tail(parts))

emoji_to_unicode(emoji) ==
    LET codepoints == [i \in 1..Len(emoji) |-> UpperHex(emoji[i])]
    IN  IF Len(codepoints) = 1
        THEN "U+" \o codepoints[1]
        ELSE Join("-", [i \in 1..Len(codepoints) |-> "U+" \o codepoints[i]])

----------------------------------------------------------------------------
(* Inputs *)

Grinning == <<128512>>
FlagUS == <<127482, 127480>>
Symbols == {Grinning, FlagUS}

EmojiLists == UNION {[1..n -> Symbols] : n \in 0..MaxEmojis}

Delays == {DefaultDelay, DefaultDelay + 1}

\* max_retries: the default, or a small number
RetryBudgets == (0..MaxRetriesBound) \cup {DefaultMaxRetries}

None == <<>>
UserIds == {"me"}
MessageIds == {"msg1"}

\* what main can pick from: up to MaxMessages messages in each channel, or
\* a message ID typed in
MaxMessages == 2
ChannelIds == {"c1", "c2"}
MessageIdOf(c, j) == c \o "m" \o ToString(j)
ListedMessageIds ==
    {MessageIdOf(c, j) : c \in ChannelIds, j \in 1..MaxMessages}
TypedMessageIds == {"", "m9"}
Contacts == {None}
Channels == {None, <<"chan1">>}

(* A response of the server: the HTTP status, whether the body parses as   *)
(* JSON ("invalid": it does not, "list": to something that is no object,   *)
(* "dict": to an object) and the object's 'code' and 'message' members.    *)
(* Status 0 stands for no response at all (a connection failure).          *)

Statuses == {200, 204, 404, 429, 500}
Codes == {300, 429, 5301}
Messages == {"Request failed", "Message 94290 failed"}

DictBodies ==
    {[k \in {} |-> k]}
    \cup {[message |-> m] : m \in Messages}
    \cup {[code |-> c, message |-> m] : c \in Codes, m \in Messages}

NoResponse == [status |-> 0, json |-> "invalid", data |-> [k \in {} |-> k]]

Responses ==
    {[status |-> s, json |-> "invalid", data |-> [k \in {} |-> k]] : s \in Statuses}
    \cup {[status |-> s, json |-> "list", data |-> [k \in {} |-> k]] : s \in Statuses}
    \cup {[status |-> s, json |-> "dict", data |-> d] :
              s \in Statuses, d \in DictBodies}
    \cup {NoResponse}

----------------------------------------------------------------------------
(* ZoomEmojiSender._handle_response and add_emoji_reaction.  The outcome   *)
(* of a call is "return", "HTTPError" (with the text str(e) gives) or      *)
(* "error" (an exception that is no HTTPError).                            *)

BASE_URL == "https://api.zoom.us/v2"

ReactionUrl(uid, mid) ==
    BASE_URL \o "/chat/users/" \o uid \o "/messages/" \o mid
             \o "/emoji_reactions"

Returned == [kind |-> "return", text |-> ""]
HTTPError(text) == [kind |-> "HTTPError", text |-> text]
OtherError == [kind |-> "error", text |-> ""]

\* response.ok: the status is no 4xx or 5xx
Ok(response) == response.status < 400

Reason(status) ==
    CASE status = 404 -> "Not Found"
      [] status = 429 -> "Too Many Requests"
      [] status = 500 -> "Internal Server Error"
      [] OTHER -> ""

\* response.raise_for_status() on an error status
RaiseForStatus(response, url) ==
    HTTPError(ToString(response.status)
              \o (IF response.status < 500 THEN " Client Error: "
                                           ELSE " Server Error: ")
              \o Reason(response.status) \o " for url: " \o url)

\* error_data.get('message', 'Unknown error')
ErrorMessage(response) ==
    IF "message" \in DOMAIN response.data
    THEN response.data["message"] ELSE "Unknown error"

\* error_data.get('code', response.status_code)
ErrorCode(response) ==
    IF "code" \in DOMAIN response.data
    THEN response.data["code"] ELSE response.status

ZoomApiError(response) ==
    HTTPError("Zoom API Error " \o ToString(ErrorCode(response)) \o ": "
              \o ErrorMessage(response))

HandleResponse(response, url) ==
    IF response.status = 204 THEN Returned
    ELSE IF ~Ok(response)
    THEN CASE response.json = "dict" -> ZoomApiError(response)
           [] response.json = "invalid" -> RaiseForStatus(response, url)
           [] OTHER -> OtherError
    ELSE Returned

\* the JSON body of the PATCH
RequestData(emoji, contact, channel) ==
    [action |-> "add", emoji |-> emoji_to_unicode(emoji)]
    @@ (IF contact # None /\ contact[1] # ""
        THEN [to_contact |-> contact[1]] ELSE [k \in {} |-> k])
    @@ (IF channel # None /\ channel[1] # ""
        THEN [to_channel |-> channel[1]] ELSE [k \in {} |-> k])

add_emoji_reaction(response, uid, mid) ==
    IF response.status = 0 THEN OtherError
    ELSE LET handled == HandleResponse(response, ReactionUrl(uid, mid))
         IN  IF handled.kind # "return" THEN handled
             ELSE IF response.status = 204 THEN Returned
             ELSE IF response.json = "dict" THEN Returned
             ELSE OtherError

----------------------------------------------------------------------------
(* Kinds of responses the properties speak of, by what the server sent:    *)
(*  "success"      204, or another good status with a JSON object          *)
(*  "rate_limit"   HTTP 429 reported under error code 429 (a body with     *)
(*                 code 429, a body without 'code', or no JSON body)       *)
(*  "internal"     an error status other than 429 whose body carries       *)
(*                 domain code 5301 and a message without "429"            *)
(*  "client_error" any other error status than 429, reported under a code  *)
(*                 other than 5301, whose text names neither 429 nor 5301  *)
(*  "other"        everything else                                         *)

ErrorText(response, uid, mid) ==
    add_emoji_reaction(response, uid, mid).text

Kind(response, uid, mid) ==
    CASE response.status = 0 -> "other"
      [] response.status = 204 -> "success"
      [] Ok(response) ->
            IF response.json = "dict" THEN "success" ELSE "other"
      [] response.json = "list" -> "other"
      [] response.status = 429 ->
            IF ErrorCode(response) = 429 THEN "rate_limit" ELSE "other"
      [] response.json = "dict" /\ ErrorCode(response) = 5301 ->
            IF Contains(ErrorMessage(response), "429")
            THEN "other" ELSE "internal"
      [] OTHER ->
            IF \/ Contains(ErrorText(response, uid, mid), "429")
               \/ Contains(ErrorText(response, uid, mid), "5301")
            THEN "other" ELSE "client_error"

----------------------------------------------------------------------------
(* ZoomEmojiSender.spam_emojis *)

Record(emoji, ok) == [emoji |-> emoji, success |-> ok]

\* variant: the loop condition tests retry_count < max_retries
WhileCond_Strict(s, n) == ~s /\ n < max_retries

\* while not success and retry_count <= max_retries
WhileCond(s, n) == ~s /\ n <= max_retries

\* where control is after the body of the while loop has run
AfterBody(s, n) == IF WhileCond(s, n) THEN "while" ELSE "for"

\* variant: the 429 branch waits as the 5301 branch does
RateLimitWait_Fixed(d, n) == d * 2

\* wait_time of the 429 branch, after retry_count += 1
RateLimitWait(d, n) == d * (2 ^ n)

\* variant: the 5301 branch waits as the 429 branch does
InternalWait_Exponential(d) == d * (2 ^ (retry_count + 1))

\* wait_time of the 5301 branch
InternalWait(d) == d * 2

\* variant: the text is compared with the code instead of searched for it
Classify_WholeText(text) ==
    IF text = "429" THEN "rate_limit"
    ELSE IF text = "5301" THEN "internal"
    ELSE "other"

\* the branch of the except clause that str(e) selects
Classify(text) ==
    IF Contains(text, "429") THEN "rate_limit"
    ELSE IF Contains(text, "5301") THEN "internal"
    ELSE "other"

OnSuccess ==
    /\ results' = Append(results, Record(emojis[idx], TRUE))
    /\ success' = TRUE
    /\ slept' = delay
    /\ pc' = AfterBody(TRUE, retry_count)
    /\ UNCHANGED retry_count

\* variant: the 429 branch records a failure on every 429, retried or not
OnRateLimited_RecordEach ==
    /\ retry_count' = retry_count + 1
    /\ results' = Append(results, Record(emojis[idx], FALSE))
    /\ slept' = IF retry_count + 1 <= max_retries
                THEN RateLimitWait(delay, retry_count + 1) ELSE 0
    /\ pc' = AfterBody(success, retry_count + 1)
    /\ UNCHANGED success

OnRateLimited ==
    /\ retry_count' = retry_count + 1
    /\ IF retry_count + 1 <= max_retries
       THEN /\ slept' = RateLimitWait(delay, retry_count + 1)
            /\ UNCHANGED results
       ELSE /\ results' = Append(results, Record(emojis[idx], FALSE))
            /\ slept' = 0
    /\ pc' = AfterBody(success, retry_count + 1)
    /\ UNCHANGED success

\* variant: a 5301 is retried without being counted in retry_count
OnInternalError_Uncounted ==
    /\ slept' = InternalWait(delay)
    /\ pc' = AfterBody(success, retry_count)
    /\ UNCHANGED <<results, success, retry_count>>

OnInternalError ==
    /\ retry_count' = retry_count + 1
    /\ IF retry_count + 1 <= max_retries
       THEN /\ slept' = InternalWait(delay)
            /\ UNCHANGED results
       ELSE /\ results' = Append(results, Record(emojis[idx], FALSE))
            /\ slept' = 0
    /\ pc' = AfterBody(success, retry_count + 1)
    /\ UNCHANGED success

\* variant: an error that is not retried ends the batch
OnOtherError_Abort ==
    /\ results' = Append(results, Record(emojis[idx], FALSE))
    /\ success' = TRUE
    /\ slept' = delay
    /\ pc' = "returned"
    /\ UNCHANGED retry_count

OnOtherError ==
    /\ results' = Append(results, Record(emojis[idx], FALSE))
    /\ success' = TRUE
    /\ slept' = delay
    /\ pc' = AfterBody(TRUE, retry_count)
    /\ UNCHANGED retry_count

\* an exception that is no HTTPError leaves spam_emojis
OnEscape ==
    /\ pc' = "raised"
    /\ slept' = 0
    /\ UNCHANGED <<results, success, retry_count>>

\* what add_emoji_reaction makes of a response, and the branch of the
\* except clause its error text selects
Result(response, uid, mid) ==
    LET out == add_emoji_reaction(response, uid, mid)
    IN  [kind |-> out.kind,
         branch |-> Classify(out.text),
         tag |-> Kind(response, uid, mid)]

\* RequestData, tabulated once for the targets spam_emojis is examined with
Body ==
    [emoji \in Symbols, contact \in Contacts, channel \in Channels |->
        RequestData(emoji, contact, channel)]

\* Result, tabulated once for the message IDs spam_emojis is examined with
Outcome ==
    [response \in Responses, uid \in UserIds, mid \in MessageIds |->
        Result(response, uid, mid)]

\* one pass of the while loop: the request, its answer, the handling of the
\* answer and the test of the loop condition that follows
Attempt(response) ==
    /\ pc = "while"
    /\ request' = IF to_contact \in Contacts /\ to_channel \in Channels
                  THEN Body[emojis[idx], to_contact, to_channel]
                  ELSE RequestData(emojis[idx], to_contact, to_channel)
    /\ sent' = sent + 1
    /\ total' = total + 1
    /\ attempted' = IF sent = 0 THEN attempted + 1 ELSE attempted
    /\ LET out == IF message_id \in MessageIds
                  THEN Outcome[response, user_id, message_id]
                  ELSE Result(response, user_id, message_id)
       IN  /\ kinds' = kinds \cup {out.tag}
           /\ CASE out.kind = "return" -> OnSuccess
                [] out.kind = "HTTPError" ->
                      CASE out.branch = "rate_limit" -> OnRateLimited
                        [] out.branch = "internal" -> OnInternalError
                        [] OTHER -> OnOtherError
                [] OTHER -> OnEscape
           /\ last_kind' = IF pc' = "while" THEN out.tag ELSE ""
    /\ UNCHANGED <<notSender, args, idx>>

\* variant: retry_count is set to 0 once, before the for loop
ForNext_NoReset ==
    /\ pc = "for"
    /\ idx < Len(emojis)
    /\ idx' = idx + 1
    /\ success' = FALSE
    /\ sent' = 0
    /\ kinds' = {}
    /\ last_kind' = ""
    /\ pc' = AfterBody(FALSE, retry_count)
    /\ UNCHANGED <<notSender, args, retry_count, results, request,
                   attempted, total, slept>>

\* for emoji in emojis: the next symbol, with success = False and
\* retry_count = 0, up to the first test of the loop condition
ForNext ==
    /\ pc = "for"
    /\ idx < Len(emojis)
    /\ idx' = idx + 1
    /\ success' = FALSE
    /\ retry_count' = 0
    /\ sent' = 0
    /\ kinds' = {}
    /\ last_kind' = ""
    /\ pc' = AfterBody(FALSE, 0)
    /\ UNCHANGED <<notSender, args, results, request, attempted, total,
                   slept>>

\* return results
Return ==
    /\ pc = "for"
    /\ idx = Len(emojis)
    /\ pc' = "returned"
    /\ UNCHANGED <<notSender, args, idx, success, retry_count, results,
                   request,
                   sent, kinds, last_kind, attempted, total, slept>>

----------------------------------------------------------------------------
(* The parts of the program at rest: what the variables of a part hold     *)
(* while another part is examined.                                         *)

SenderIdle ==
    /\ user_id = "me"
    /\ message_id = ""
    /\ emojis = <<>>
    /\ delay = DefaultDelay
    /\ to_contact = None
    /\ to_channel = None
    /\ max_retries = DefaultMaxRetries
    /\ pc = "idle"
    /\ idx = 0
    /\ success = FALSE
    /\ retry_count = 0
    /\ results = <<>>
    /\ request = [k \in {} |-> k]
    /\ attempted = 0
    /\ total = 0
    /\ sent = 0
    /\ kinds = {}
    /\ last_kind = ""
    /\ slept = 0

EncoderIdle ==
    /\ symbol = <<>>
    /\ wire = ""
    /\ body = [k \in {} |-> k]
    /\ epc = "idle"

PagerIdle ==
    /\ listing = "channels"
    /\ pages = <<>>
    /\ all_items = <<>>
    /\ next_page_token = None
    /\ fetched = <<>>
    /\ ppc = "idle"

BootstrapIdle ==
    /\ client_id = ""
    /\ client_secret = ""
    /\ mpc = "idle"
    /\ server_thread = "none"
    /\ query_components = [k \in {} |-> k]
    /\ authorization_code = None
    /\ socket = "unbound"
    /\ token_data = [k \in {} |-> k]
    /\ env_file = [k \in {} |-> k]
    /\ timed_out = FALSE
    /\ flow = ""

SelectorIdle ==
    /\ spc = "idle"
    /\ choice = ""
    /\ channels = <<>>
    /\ messages = <<>>
    /\ entry = ""

NotSenderIdle == EncoderIdle /\ PagerIdle /\ BootstrapIdle /\ SelectorIdle

NotEncoderIdle == SenderIdle /\ PagerIdle /\ BootstrapIdle /\ SelectorIdle

NotPagerIdle == SenderIdle /\ EncoderIdle /\ BootstrapIdle /\ SelectorIdle

NotBootstrapIdle == SenderIdle /\ EncoderIdle /\ PagerIdle /\ SelectorIdle

NotSelectorIdle == EncoderIdle /\ PagerIdle /\ BootstrapIdle

----------------------------------------------------------------------------
(* spam_emojis called with any arguments against any server *)

\* the server answers as it likes
Send == \E response \in Responses : Attempt(response)

Init ==
    /\ user_id \in UserIds
    /\ message_id \in MessageIds
    /\ emojis \in EmojiLists
    /\ delay \in Delays
    /\ to_contact \in Contacts
    /\ to_channel \in Channels
    /\ max_retries \in RetryBudgets
    /\ pc = "for"
    /\ idx = 0
    /\ success = FALSE
    /\ retry_count = 0
    /\ results = <<>>
    /\ request = [k \in {} |-> k]
    /\ attempted = 0
    /\ total = 0
    /\ sent = 0
    /\ kinds = {}
    /\ last_kind = ""
    /\ slept = 0
    /\ NotSenderIdle

Next == Send \/ ForNext \/ Return

Spec == Init /\ [][Next]_vars

----------------------------------------------------------------------------
(* The scenario of the end-to-end test: a batch of 3 symbols sent with the *)
(* default max_retries to a server that answers, in this order, with a     *)
(* success, a rate-limit error, a success and a 404 client error.          *)

ScenarioKinds == <<"success", "rate_limit", "success", "client_error">>

ScenarioEmojiLists == [1..(Len(ScenarioKinds) - 1) -> Symbols]

ScenarioStart ==
    /\ user_id \in UserIds
    /\ message_id \in MessageIds
    /\ emojis \in ScenarioEmojiLists
    /\ delay \in Delays
    /\ to_contact \in Contacts
    /\ to_channel \in Channels
    /\ max_retries = DefaultMaxRetries
    /\ pc = "for"
    /\ idx = 0
    /\ success = FALSE
    /\ retry_count = 0
    /\ results = <<>>
    /\ request = [k \in {} |-> k]
    /\ attempted = 0
    /\ total = 0
    /\ sent = 0
    /\ kinds = {}
    /\ last_kind = ""
    /\ slept = 0
    /\ NotSenderIdle

ScenarioSend ==
    /\ total < Len(ScenarioKinds)
    /\ \E response \in Responses :
          /\ Outcome[response, user_id, message_id].tag
                = ScenarioKinds[total + 1]
          /\ ScenarioKinds[total + 1] = "client_error"
                => response.status = 404
          /\ Attempt(response)

ScenarioNext == ScenarioSend \/ ForNext \/ Return

ScenarioSpec == ScenarioStart /\ [][ScenarioNext]_vars

----------------------------------------------------------------------------
(* emoji_to_unicode, applied to symbols of up to MaxCodepoints codepoints, *)
(* and the request body add_emoji_reaction builds from the result.         *)

MaxCodepoints == 2

\* "A", the copyright sign, zero-width joiner, heavy heart, variation
\* selector 16, two regional indicators, thumbs up, grinning face and the
\* last codepoint
Codepoints == {65, 169, 8205, 10084, 65039, 127480, 127482, 128077, 128512,
               1114111}

EncoderSymbols == UNION {[1..n -> Codepoints] : n \in 0..MaxCodepoints}

EncoderInit ==
    /\ symbol \in EncoderSymbols
    /\ wire = ""
    /\ body = [k \in {} |-> k]
    /\ epc = "start"
    /\ NotEncoderIdle

\* unicode_emoji = emoji_to_unicode(emoji)
Encode ==
    /\ epc = "start"
    /\ wire' = emoji_to_unicode(symbol)
    /\ epc' = "encoded"
    /\ UNCHANGED <<notEncoder, symbol, body>>

\* data = {"action": action, "emoji": unicode_emoji, ...}; requests.patch
Patch ==
    /\ epc = "encoded"
    /\ body' = RequestData(symbol, to_contact, to_channel)
    /\ epc' = "sent"
    /\ UNCHANGED <<notEncoder, symbol, wire>>

EncoderNext == Encode \/ Patch

EncoderSpec == EncoderInit /\ [][EncoderNext]_vars

----------------------------------------------------------------------------
(* list_chat_channels / list_recent_messages against a server that holds   *)
(* the listing in up to MaxPages pages. A page is the JSON object of one   *)
(* response: whether it has the items member ("channels" / "messages"),    *)
(* the items, and the next_page_token member (None: omitted). The token    *)
(* the server issues on page k names page k + 1.                           *)

MaxPages == 3
MaxPageSize == 1

TokenFor(k) == "page" \o ToString(k)

\* item j of page k
Item(k, j) == [id |-> <<k, j>>]

PageChoices(k, last) ==
    [has_items : {TRUE},
     items : {[j \in 1..n |-> Item(k, j)] : n \in 0..MaxPageSize},
     token : {None, <<"">>} \cup
             (IF last THEN {} ELSE {<<TokenFor(k + 1)>>})]
    \cup [has_items : {FALSE}, items : {<<>>},
          token : {None} \cup (IF last THEN {} ELSE {<<TokenFor(k + 1)>>})]

\* the first n pages of a listing that goes on after them
RECURSIVE Prefixes(_)
Prefixes(n) ==
    IF n = 0 THEN {<<>>}
    ELSE {Append(ps, page) : ps \in Prefixes(n - 1),
                             page \in PageChoices(n, FALSE)}

Listings ==
    UNION {{Append(ps, page) : ps \in Prefixes(n - 1),
                               page \in PageChoices(n, TRUE)} :
           n \in 1..MaxPages}

\* truth value of an Optional[str]
Truthy(opt) == opt # None /\ opt[1] # ""

\* variant: the token is never put in the parameters
TokenParam_Dropped(token) == None

\* if next_page_token: params["next_page_token"] = next_page_token
TokenParam(token) == IF Truthy(token) THEN token ELSE None

\* the page the server answers a request with
Serve(param) ==
    IF param = None THEN pages[1]
    ELSE pages[CHOOSE k \in 1..Len(pages) : TokenFor(k) = param[1]]

\* data.get("channels", [])
Get(page) == IF page.has_items THEN page.items ELSE <<>>

PagerInit ==
    /\ listing \in {"channels", "messages"}
    /\ pages \in Listings
    /\ all_items = <<>>
    /\ next_page_token = None
    /\ fetched = <<>>
    /\ ppc = "loop"
    /\ NotPagerIdle

\* one pass of the while loop with a good response
FetchPage ==
    /\ ppc = "loop"
    /\ LET param == TokenParam(next_page_token)
           data == Serve(param)
       IN  /\ fetched' = Append(fetched, param)
           /\ all_items' = all_items \o Get(data)
           /\ next_page_token' = data.token
           /\ ppc' = IF ~Truthy(data.token) THEN "returned" ELSE "loop"
    /\ UNCHANGED <<notPager, listing, pages>>

\* one pass of the while loop with an error response: _handle_response
\* raises HTTPError, which is reported and raised again
FetchFails ==
    /\ ppc = "loop"
    /\ fetched' = Append(fetched, TokenParam(next_page_token))
    /\ ppc' = "raised"
    /\ UNCHANGED <<notPager, listing, pages, all_items, next_page_token>>

PagerNext == FetchPage \/ FetchFails

PagerSpec == PagerInit /\ [][PagerNext]_vars

----------------------------------------------------------------------------
(* get_access_token.main: the main thread, the listener thread running     *)
(* server.handle_request, and the token endpoint. main is cut where it     *)
(* blocks: at the join, at the token request and at the write of .env.     *)

ClientIds == {"", "id"}
ClientSecrets == {"", "secret"}

\* the query of the request the listener receives: with or without 'code'
Queries == {[k \in {} |-> k], [code |-> "c0de"], [error |-> "access_denied"]}

\* what the token endpoint answers: an error status, nothing, something
\* that is no JSON, or a JSON object
TokenReplies ==
    {[kind |-> "http_error", data |-> [k \in {} |-> k]],
     [kind |-> "no_response", data |-> [k \in {} |-> k]],
     [kind |-> "not_json", data |-> [k \in {} |-> k]]}
    \cup {[kind |-> "ok", data |-> d] :
            d \in {[k \in {} |-> k],
                   [access_token |-> ""],
                   [access_token |-> "at"],
                   [refresh_token |-> "rt"],
                   [access_token |-> "at", refresh_token |-> "rt"],
                   [access_token |-> "at", refresh_token |-> ""]}}

\* token_data.get(key)
TokenGet(d, key) == IF key \in DOMAIN d THEN <<d[key]>> ELSE None

\* finally: server.server_close()
Finally(how) ==
    /\ socket' = "closed"
    /\ mpc' = "returned"
    /\ flow' = how

\* variant: the port is left open when no code was received
OnNoCode_NoClose ==
    /\ mpc' = "returned"
    /\ flow' = "no_code"
    /\ UNCHANGED socket

\* if not OAuthCallbackHandler.authorization_code: server.server_close();
\* return
OnNoCode ==
    /\ socket' = "closed"
    /\ mpc' = "returned"
    /\ flow' = "no_code"

BootstrapInit ==
    /\ client_id \in ClientIds
    /\ client_secret \in ClientSecrets
    /\ mpc = "input"
    /\ server_thread = "none"
    /\ query_components = [k \in {} |-> k]
    /\ authorization_code = None
    /\ socket = "unbound"
    /\ token_data = [k \in {} |-> k]
    /\ env_file = [k \in {} |-> k]
    /\ timed_out = FALSE
    /\ flow = ""
    /\ NotBootstrapIdle

\* main up to the join: the inputs, HTTPServer(...) and the start of the
\* listener thread (opening the browser changes nothing here)
StartServer ==
    /\ mpc = "input"
    /\ IF client_id = "" \/ client_secret = ""
       THEN /\ mpc' = "returned"
            /\ flow' = "no_credentials"
            /\ UNCHANGED <<socket, server_thread>>
       ELSE /\ socket' = "listening"
            /\ server_thread' = "waiting"
            /\ mpc' = "join"
            /\ UNCHANGED flow
    /\ UNCHANGED <<notBootstrap, client_id, client_secret,
                   query_components, authorization_code, token_data,
                   env_file, timed_out>>

\* HTTPServer(...) raises OSError: the port is taken
BindFails ==
    /\ mpc = "input"
    /\ client_id # "" /\ client_secret # ""
    /\ mpc' = "crashed"
    /\ flow' = "bind_failed"
    /\ UNCHANGED <<notBootstrap, client_id, client_secret, server_thread,
                   query_components, authorization_code, socket, token_data,
                   env_file,
                   timed_out>>

\* the listener thread: handle_request accepts a connection and do_GET
\* parses the query of the request
Accept(query) ==
    /\ server_thread = "waiting"
    /\ socket = "listening"
    /\ query_components' = query
    /\ server_thread' = "handling"
    /\ UNCHANGED <<notBootstrap, client_id, client_secret, mpc,
                   authorization_code, socket, token_data, env_file,
                   timed_out, flow>>

\* the listener thread: do_GET looks for 'code' and keeps it
DoGet ==
    /\ server_thread = "handling"
    /\ authorization_code' = IF "code" \in DOMAIN query_components
                             THEN <<query_components.code>>
                             ELSE authorization_code
    /\ server_thread' = "responding"
    /\ UNCHANGED <<notBootstrap, client_id, client_secret, mpc,
                   query_components, socket, token_data, env_file,
                   timed_out, flow>>

\* the listener thread: do_GET writes the page (status 200 or 400) to the
\* browser, and the thread ends
Respond ==
    /\ server_thread = "responding"
    /\ server_thread' = "done"
    /\ UNCHANGED <<notBootstrap, client_id, client_secret, mpc,
                   query_components, authorization_code, socket, token_data,
                   env_file, timed_out, flow>>

\* the listener thread: handle_request ends on the closed socket
ListenerAborts ==
    /\ server_thread = "waiting"
    /\ socket = "closed"
    /\ server_thread' = "failed"
    /\ UNCHANGED <<notBootstrap, client_id, client_secret, mpc,
                   query_components, authorization_code, socket, token_data,
                   env_file, timed_out, flow>>

\* server_thread.join(timeout=300) returns: the thread has ended
JoinReturns ==
    /\ mpc = "join"
    /\ server_thread \in {"done", "failed"}
    /\ mpc' = "check"
    /\ UNCHANGED <<notBootstrap, client_id, client_secret, server_thread,
                   query_components, authorization_code, socket, token_data,
                   env_file,
                   timed_out, flow>>

\* server_thread.join(timeout=300) returns: the 300 s are over
JoinTimesOut ==
    /\ mpc = "join"
    /\ server_thread \in {"waiting", "handling", "responding"}
    /\ mpc' = "check"
    /\ timed_out' = TRUE
    /\ UNCHANGED <<notBootstrap, client_id, client_secret, server_thread,
                   query_components, authorization_code, socket, token_data,
                   env_file, flow>>

\* Ctrl-C while main blocks: KeyboardInterrupt leaves main (through the
\* finally clause when it is raised inside the try statement), sys.exit(0)
Interrupt ==
    /\ mpc \in {"join", "exchange", "save"}
    /\ mpc' = "interrupted"
    /\ flow' = "cancelled"
    /\ socket' = IF mpc = "join" THEN socket ELSE "closed"
    /\ UNCHANGED <<notBootstrap, client_id, client_secret, server_thread,
                   query_components, authorization_code, token_data,
                   env_file, timed_out>>

\* if not OAuthCallbackHandler.authorization_code: ...
CheckCode ==
    /\ mpc = "check"
    /\ IF authorization_code = None
       THEN OnNoCode
       ELSE /\ mpc' = "exchange"
            /\ UNCHANGED <<socket, flow>>
    /\ UNCHANGED <<notBootstrap, client_id, client_secret, server_thread,
                   query_components, authorization_code, token_data,
                   env_file, timed_out>>

\* exchange_code_for_token and the inspection of its result
Exchange(reply) ==
    /\ mpc = "exchange"
    /\ IF reply.kind = "http_error" THEN
            Finally("http_error") /\ UNCHANGED token_data
       ELSE IF reply.kind # "ok" THEN
            Finally("error") /\ UNCHANGED token_data
       ELSE /\ token_data' = reply.data
            /\ IF ~Truthy(TokenGet(reply.data, "access_token"))
               THEN Finally("no_token")
               ELSE /\ mpc' = "save"
                    /\ UNCHANGED <<socket, flow>>
    /\ UNCHANGED <<notBootstrap, client_id, client_secret, server_thread,
                   query_components, authorization_code, env_file, timed_out>>

\* save_to_env_file(access_token, refresh_token or ""), which may fail
\* with OSError, and the rest of main
Save(written) ==
    /\ mpc = "save"
    /\ IF written
       THEN /\ env_file' =
                  [ZOOM_ACCESS_TOKEN |-> token_data.access_token]
                  @@ (IF Truthy(TokenGet(token_data, "refresh_token"))
                      THEN [ZOOM_REFRESH_TOKEN |-> token_data.refresh_token]
                      ELSE [k \in {} |-> k])
            /\ Finally("success")
       ELSE /\ Finally("error")
            /\ UNCHANGED env_file
    /\ UNCHANGED <<notBootstrap, client_id, client_secret, server_thread,
                   query_components, authorization_code, token_data,
                   timed_out>>

BootstrapNext ==
    \/ StartServer
    \/ BindFails
    \/ \E query \in Queries : Accept(query)
    \/ DoGet
    \/ Respond
    \/ ListenerAborts
    \/ JoinReturns
    \/ JoinTimesOut
    \/ Interrupt
    \/ CheckCode
    \/ \E reply \in TokenReplies : Exchange(reply)
    \/ \E written \in BOOLEAN : Save(written)

BootstrapSpec == BootstrapInit /\ [][BootstrapNext]_vars

----------------------------------------------------------------------------
(* main of zoom_emoji_sender.py from the user ID to the call of            *)
(* spam_emojis, cut at its prompts. What the listing methods return and    *)
(* what the user types are inputs of the steps.                            *)

\* messages = messages[:20]
DisplayLimit == 20

Dates == {1, 2}

\* the channels list_chat_channels may return
ChannelLists ==
    {<<>>, <<[id |-> "c1"]>>, <<[id |-> "c1"], [id |-> "c2"]>>}

\* the messages list_recent_messages may return for channel c
MessageLists(c) ==
    UNION {{ms \in [1..n -> [id : ListedMessageIds, date_time : Dates]] :
               \A j \in 1..n : ms[j].id = MessageIdOf(c, j)} :
           n \in 0..MaxMessages}

\* the outcome of a call of a listing method: a list, or an exception
Fetched(lists) ==
    {[ok |-> TRUE, list |-> l] : l \in lists}
    \cup {[ok |-> FALSE, list |-> <<>>]}

\* what is typed at a list
EntryTexts == {"", "abc", "-2", "-1", "0", "1", "2", "3", "+1", "5"}

RECURSIVE DecValue(_)
DecValue(text) ==
    IF text = "" THEN -1
    ELSE LET char == SubSeq(text, Len(text), Len(text))
             front == SubSeq(text, 1, Len(text) - 1)
             last == IF \E d \in 0..9 : ToString(d) = char
                     THEN CHOOSE d \in 0..9 : ToString(d) = char
                     ELSE -1
         IN  IF last = -1 THEN -1
             ELSE IF front = "" THEN last
             ELSE IF DecValue(front) = -1 THEN -1
             ELSE 10 * DecValue(front) + last

\* int(text) for a stripped text: an optional sign and decimal digits
ParseInt(text) ==
    LET sign == IF text # "" /\ SubSeq(text, 1, 1) \in {"-", "+"}
                THEN SubSeq(text, 1, 1) ELSE ""
        digits == IF sign = "" THEN text ELSE SubSeq(text, 2, Len(text))
    IN  IF DecValue(digits) = -1
        THEN [kind |-> "ValueError", value |-> 0]
        ELSE [kind |-> "return",
              value |-> IF sign = "-" THEN 0 - DecValue(digits)
                        ELSE DecValue(digits)]

\* list[i] of Python, i counted from 0, a negative i from the end
PyIndex(list, i) ==
    IF i \in 0..(Len(list) - 1)
    THEN [kind |-> "return", item |-> <<list[i + 1]>>]
    ELSE IF i \in (0 - Len(list))..(-1)
    THEN [kind |-> "return", item |-> <<list[Len(list) + i + 1]>>]
    ELSE [kind |-> "IndexError", item |-> <<>>]

\* idx = int(text) - 1; list[idx]
Pick(list, text) ==
    LET n == ParseInt(text)
    IN  IF n.kind # "return" THEN [kind |-> n.kind, item |-> <<>>]
        ELSE PyIndex(list, n.value - 1)

\* msg["_channel_id"] = channel["id"] for each message of the list
Tagged(list, c) ==
    [j \in 1..Len(list) |->
        [id |-> list[j].id, date_time |-> list[j].date_time,
         _channel_id |-> c]]

RECURSIVE InsertByDate(_, _)
InsertByDate(sorted, msg) ==
    IF sorted = <<>> THEN <<msg>>
    ELSE IF Head(sorted).date_time >= msg.date_time
         THEN <<Head(sorted)>> \o InsertByDate(Tail(sorted), msg)
         ELSE <<msg>> \o sorted

\* messages.sort(key=date_time, reverse=True): stable, latest first
RECURSIVE SortByDate(_)
SortByDate(list) ==
    IF list = <<>> THEN <<>>
    ELSE InsertByDate(SortByDate(SubSeq(list, 1, Len(list) - 1)),
                      list[Len(list)])

Take(list, n) == SubSeq(list, 1, IF Len(list) < n THEN Len(list) ELSE n)

\* the messages of all channels, those of failing channels left out
RECURSIVE Gather(_, _)
Gather(chs, feed) ==
    IF chs = <<>> THEN <<>>
    ELSE LET c == Head(chs).id
         IN  (IF feed[c].ok THEN Tagged(feed[c].list, c) ELSE <<>>)
             \o Gather(Tail(chs), feed)

\* what list_recent_messages returns for each channel
Feeds ==
    {feed \in [ChannelIds ->
                 UNION {Fetched(MessageLists(c)) : c \in ChannelIds}] :
        \A c \in ChannelIds : feed[c] \in Fetched(MessageLists(c))}

SelectorInit ==
    /\ spc = "start"
    /\ choice = ""
    /\ channels = <<>>
    /\ messages = <<>>
    /\ entry = ""
    /\ SenderIdle
    /\ NotSelectorIdle

\* main returns (or its except clause ends it) without calling spam_emojis
Leave ==
    /\ spc' = "returned"
    /\ UNCHANGED <<message_id, to_channel, channels, messages>>

\* sender.get_user_id() and the menu of three choices
Start(ok, typed) ==
    /\ spc = "start"
    /\ choice' = IF ok THEN typed ELSE choice
    /\ spc' = IF ok THEN "choice" ELSE "returned"
    /\ UNCHANGED <<notSelector, sender, channels, messages, entry>>

\* choice "1": the messages of all channels, latest first
AllChats(chs, feed) ==
    /\ spc = "choice"
    /\ choice = "1"
    /\ IF ~chs.ok THEN Leave
       ELSE /\ channels' = chs.list
            /\ IF chs.list = <<>>
               THEN spc' = "returned" /\ UNCHANGED messages
               ELSE LET all == Gather(chs.list, feed)
                    IN  IF all = <<>>
                        THEN spc' = "returned" /\ messages' = all
                        ELSE /\ messages' =
                                  Take(SortByDate(all), DisplayLimit)
                             /\ spc' = "msg_num_all"
            /\ UNCHANGED <<message_id, to_channel>>
    /\ UNCHANGED <<notSelector, user_id, emojis, delay, to_contact,
                   max_retries, pc, idx, success, retry_count, results,
                   request, sent, kinds, last_kind, attempted, total, slept,
                   choice,
                   entry>>

\* the number typed at the list of all messages
PickMessageAll(msg_num) ==
    /\ spc = "msg_num_all"
    /\ entry' = msg_num
    /\ LET picked == Pick(messages, msg_num)
       IN  IF picked.kind # "return"
           THEN spc' = "returned" /\ UNCHANGED <<message_id, to_channel>>
           ELSE /\ message_id' = picked.item[1].id
                /\ to_channel' = <<picked.item[1]._channel_id>>
                /\ spc' = "emoji"
    /\ UNCHANGED <<notSelector, user_id, emojis, delay, to_contact,
                   max_retries, pc, idx, success, retry_count, results,
                   request, sent, kinds, last_kind, attempted, total, slept,
                   choice,
                   channels, messages>>

\* choice "2": the list of channels
OneChannel(chs) ==
    /\ spc = "choice"
    /\ choice = "2"
    /\ IF ~chs.ok THEN Leave
       ELSE /\ channels' = chs.list
            /\ spc' = IF chs.list = <<>> THEN "returned" ELSE "channel_num"
            /\ UNCHANGED <<message_id, to_channel, messages>>
    /\ UNCHANGED <<notSelector, user_id, emojis, delay, to_contact,
                   max_retries, pc, idx, success, retry_count, results,
                   request, sent, kinds, last_kind, attempted, total, slept,
                   choice,
                   entry>>

\* the number typed at the list of channels, and the channel's messages
PickChannel(channel_num, feed) ==
    /\ spc = "channel_num"
    /\ entry' = channel_num
    /\ LET picked == Pick(channels, channel_num)
       IN  IF picked.kind # "return"
           THEN spc' = "returned" /\ UNCHANGED <<to_channel, messages>>
           ELSE LET c == picked.item[1].id
                IN  /\ to_channel' = <<c>>
                    /\ IF ~feed[c].ok
                       THEN spc' = "returned" /\ UNCHANGED messages
                       ELSE /\ messages' = feed[c].list
                            /\ spc' = IF feed[c].list = <<>>
                                      THEN "returned" ELSE "msg_num_channel"
    /\ UNCHANGED <<notSelector, user_id, message_id, emojis, delay,
                   to_contact, max_retries, pc, idx, success, retry_count,
                   results, request, sent, kinds, last_kind, attempted, total, slept,
                   choice, channels>>

\* the number typed at the list of the channel's messages
PickMessageChannel(msg_num) ==
    /\ spc = "msg_num_channel"
    /\ entry' = msg_num
    /\ LET picked == Pick(messages, msg_num)
       IN  IF picked.kind # "return"
           THEN spc' = "returned" /\ UNCHANGED message_id
           ELSE /\ message_id' = picked.item[1].id
                /\ spc' = "emoji"
    /\ UNCHANGED <<notSelector, user_id, emojis, delay, to_contact,
                   to_channel, max_retries, pc, idx, success, retry_count,
                   results, request, sent, kinds, last_kind, attempted, total, slept,
                   choice, channels, messages>>

\* choice "3": the message ID is typed in; any other choice ends main
EnterMessageId(typed) ==
    /\ spc = "choice"
    /\ choice \notin {"1", "2"}
    /\ IF choice = "3"
       THEN /\ message_id' = typed
            /\ spc' = IF typed = "" THEN "returned" ELSE "emoji"
       ELSE /\ spc' = "returned"
            /\ UNCHANGED message_id
    /\ UNCHANGED <<notSelector, user_id, emojis, delay, to_contact,
                   to_channel, max_retries, pc, idx, success, retry_count,
                   results, request, sent, kinds, last_kind, attempted, total, slept,
                   choice, channels, messages, entry>>

\* the emoji menu (its outcome: a list of symbols), the confirmation and
\* the call sender.spam_emojis(user_id, message_id, emojis,
\* to_contact=to_contact, to_channel=to_channel)
EmojiMenu(list, confirm) ==
    /\ spc = "emoji"
    /\ IF list # <<>> /\ confirm \in {"yes", "y"}
       THEN /\ emojis' = list
            /\ pc' = "for"
            /\ spc' = "calling"
       ELSE /\ spc' = "returned"
            /\ UNCHANGED <<emojis, pc>>
    /\ UNCHANGED <<notSelector, user_id, message_id, delay, to_contact,
                   to_channel, max_retries, idx, success, retry_count,
                   results, request, sent, kinds, last_kind, attempted, total, slept,
                   choice, channels, messages, entry>>

\* spam_emojis has returned or raised: the summary, or the except clause
Finish ==
    /\ spc = "calling"
    /\ pc \in {"returned", "raised"}
    /\ spc' = "returned"
    /\ UNCHANGED <<notSelector, sender, choice, channels, messages, entry>>

\* the server answers the reaction requests with a bare status
SelectorSend ==
    \E response \in {r \in Responses : r.json = "invalid"} :
        Attempt(response)

SelectorNext ==
    \/ \E ok \in BOOLEAN, typed \in {"1", "2", "3", "4"} : Start(ok, typed)
    \/ \E chs \in Fetched(ChannelLists), feed \in Feeds : AllChats(chs, feed)
    \/ \E msg_num \in EntryTexts : PickMessageAll(msg_num)
    \/ \E chs \in Fetched(ChannelLists) : OneChannel(chs)
    \/ \E channel_num \in EntryTexts, feed \in Feeds :
          PickChannel(channel_num, feed)
    \/ \E msg_num \in EntryTexts : PickMessageChannel(msg_num)
    \/ \E typed \in TypedMessageIds : EnterMessageId(typed)
    \/ \E list \in {<<>>, <<Grinning>>}, confirm \in {"yes", "no"} :
          EmojiMenu(list, confirm)
    \/ ForNext
    \/ SelectorSend
    \/ Return
    \/ Finish

SelectorSpec == SelectorInit /\ [][SelectorNext]_vars

----------------------------------------------------------------------------
(* Properties *)

Successes(rs) == [i \in 1..Len(rs) |-> rs[i].success]

\* C1: spam_emojis returns exactly one record per input symbol, in input
\* order: every record made so far is for the symbol at its position, a
\* symbol has its record as soon as its loop has ended and not before, and
\* the returned list is as long as the input list.
C1_OneRecordPerSymbolInOrder ==
    /\ \A i \in 1..Len(results) :
          i <= Len(emojis) /\ results[i].emoji = emojis[i]
    /\ pc = "while" => Len(results) = idx - 1
    /\ pc = "for" => Len(results) = idx
    /\ pc = "returned" => Len(results) = Len(emojis)

C1_Witness ==
    /\ pc = "returned"
    /\ Len(emojis) = 2
    /\ emojis[1] # emojis[2]
    /\ results[1].success # results[2].success
    /\ total > 2

\* C2: every symbol of the list gets at least one request, whatever became
\* of the symbols before it: when the loop of symbol idx has ended, idx
\* symbols have been attempted, and at the return all of them have.
C2_EverySymbolAttempted ==
    /\ pc = "for" => attempted = idx
    /\ pc = "returned" => attempted = Len(emojis)

\* the first of two symbols failed on its only request, with retries left
C2_Witness ==
    /\ pc = "returned"
    /\ Len(emojis) = 2
    /\ max_retries >= 1
    /\ ~results[1].success
    /\ total = 2
    /\ attempted = 2

\* C3: a symbol whose every request is answered with a rate-limit error
\* (429) gets exactly max_retries + 1 requests, has no record while fewer
\* have been sent, and then one record with success = false.
C3_RetryAccounting ==
    kinds = {"rate_limit"} =>
        /\ pc \in {"while", "for", "returned"}
        /\ pc = "while" => sent <= max_retries /\ Len(results) = idx - 1
        /\ pc # "while" =>
              /\ sent = max_retries + 1
              /\ Len(results) = idx
              /\ ~results[idx].success

C3_Witness ==
    /\ kinds = {"rate_limit"}
    /\ pc = "for"
    /\ max_retries = DefaultMaxRetries
    /\ sent = 4
    /\ ~results[idx].success

\* C4: while a symbol is being retried because of 429 responses only, the
\* wait before its k-th retry is delay * 2^k; with delay = 1 the waits are
\* 2, 4, 8.
C4_ExponentialBackoff ==
    (pc = "while" /\ kinds = {"rate_limit"}) =>
        /\ sent >= 1
        /\ slept = delay * (2 ^ sent)
        /\ (delay = 1 /\ sent <= 3) => slept = <<2, 4, 8>>[sent]

C4_Witness ==
    /\ pc = "while"
    /\ kinds = {"rate_limit"}
    /\ delay = 1
    /\ sent = 3
    /\ slept = 8

\* C5: a symbol whose every request is answered with domain error 5301
\* waits delay * 2 before every retry, whatever the attempt number, gets
\* exactly max_retries + 1 requests and then one record with
\* success = false.
C5_InternalErrorFixedBackoff ==
    kinds = {"internal"} =>
        /\ pc \in {"while", "for", "returned"}
        /\ pc = "while" =>
              /\ slept = delay * 2
              /\ sent <= max_retries
              /\ Len(results) = idx - 1
        /\ pc # "while" =>
              /\ sent = max_retries + 1
              /\ Len(results) = idx
              /\ ~results[idx].success

\* the third retry of a symbol is about to be sent after the fixed wait
C5_Witness ==
    /\ kinds = {"internal"}
    /\ pc = "while"
    /\ sent = 3
    /\ slept = delay * 2

\* C6: the retry budget is per symbol: the attempt counter counts failures
\* of the current symbol only (it is the number of requests sent for the
\* symbol while the symbol is being retried), no symbol gets more than
\* max_retries + 1 requests, and the batch sends at most
\* N * (max_retries + 1) requests.
C6_BudgetPerSymbol ==
    /\ retry_count <= sent
    /\ pc = "while" => retry_count = sent
    /\ sent <= max_retries + 1
    /\ total <= idx * (max_retries + 1)
    /\ total <= Len(emojis) * (max_retries + 1)

\* both symbols of a batch used their whole budget
C6_Witness ==
    /\ pc = "returned"
    /\ Len(emojis) = 2
    /\ max_retries = DefaultMaxRetries
    /\ total = 2 * (DefaultMaxRetries + 1)

\* C7: every request answered with HTTP status 429 is handled as
\* retryable, whatever its error body contains (here: whatever 'code' and
\* 'message' its JSON object carries): the attempt count is incremented
\* and the symbol is retried while the count is <= max_retries.
C7_Every429Retried ==
    [][\A response \in Responses :
          (/\ Attempt(response)
           /\ response.status = 429
           /\ response.json = "dict") =>
              /\ retry_count' = retry_count + 1
              /\ retry_count' <= max_retries => pc' = "while"]_vars

\* C8: an error response that is neither HTTP 429 nor domain error 5301 is
\* never retried, whatever text its message carries: the one request is
\* followed by a record with success = false and the symbol is left.
C8_OtherErrorsNeverRetried ==
    [][\A response \in Responses :
          (/\ Attempt(response)
           /\ ~Ok(response)
           /\ response.status # 429
           /\ response.json = "dict"
           /\ ErrorCode(response) # 5301) =>
              /\ results' = Append(results, Record(emojis[idx], FALSE))
              /\ pc' = "for"]_vars

\* C9: between any two consecutive requests of a batch the sender sleeps at
\* least delay: whenever a request has been sent and another one is to
\* follow, at least delay has been slept since the answer.
C9_SleepBetweenRequests ==
    (total > 0 /\ (pc = "while" \/ (pc = "for" /\ idx < Len(emojis))))
        => slept >= delay

\* C10: in the scenario the outcomes are [success, success, failure], one
\* per symbol in input order, exactly 4 requests are sent, and the call
\* returns.
C10_EndToEnd ==
    /\ pc # "raised"
    /\ total <= 4
    /\ pc = "returned" =>
          /\ Successes(results) = <<TRUE, TRUE, FALSE>>
          /\ \A i \in 1..3 : results[i].emoji = emojis[i]
          /\ total = 4

C10_Witness ==
    /\ pc = "returned"
    /\ total = 4
    /\ Successes(results) = <<TRUE, TRUE, FALSE>>

\* C11: every response with a 2xx status to a reaction request, with or
\* without a body, is followed by a record with success = true for the
\* symbol, and the batch goes on with the next symbol.
C11_Every2xxSucceeds ==
    [][\A response \in Responses :
          (/\ Attempt(response)
           /\ response.status \in 200..299) =>
              /\ results' = Append(results, Record(emojis[idx], TRUE))
              /\ pc' = "for"]_vars

\* C12: no failure while sending one symbol escapes spam_emojis: the call
\* never ends by raising, so the records of the earlier symbols are
\* returned.
C12_NoFailureEscapes ==
    pc # "raised"

\* C19: within one symbol the 429 branch and the 5301 branch share
\* retry_count: while only retryable failures have been seen the symbol
\* has got at most max_retries + 1 requests, each of them counted in
\* retry_count, and the wait after a 429 is
\* delay * 2^(number of retryable failures of either kind seen so far).
C19_SharedAttemptCounter ==
    kinds \subseteq {"rate_limit", "internal"} =>
        /\ sent <= max_retries + 1
        /\ retry_count = sent
        /\ (pc = "while" /\ last_kind = "rate_limit") =>
              slept = delay * (2 ^ sent)

C19_Witness ==
    /\ pc = "while"
    /\ kinds = {"rate_limit", "internal"}
    /\ last_kind = "rate_limit"
    /\ sent = 2
    /\ retry_count = 2
    /\ slept = delay * 4

----------------------------------------------------------------------------
(* Reading a wire string back: its pieces between hyphens, and the number  *)
(* an uppercase hexadecimal numeral denotes (-1 if it is none).            *)

RECURSIVE Split(_, _)
Split(text, acc) ==
    IF text = "" THEN <<acc>>
    ELSE IF SubSeq(text, 1, 1) = "-" 
         THEN <<acc>> \o Split(SubSeq(text, 2, Len(text)), "")
         ELSE Split(SubSeq(text, 2, Len(text)), acc \o SubSeq(text, 1, 1))

DigitValue(char) ==
    IF \E d \in 0..15 : SubSeq("0123456789ABCDEF", d + 1, d + 1) = char
    THEN CHOOSE d \in 0..15 : SubSeq("0123456789ABCDEF", d + 1, d + 1) = char
    ELSE -1

RECURSIVE HexValue(_)
HexValue(text) ==
    IF text = "" THEN -1
    ELSE LET last == DigitValue(SubSeq(text, Len(text), Len(text)))
             front == SubSeq(text, 1, Len(text) - 1)
         IN  IF last = -1 THEN -1
             ELSE IF front = "" THEN last
             ELSE IF HexValue(front) = -1 THEN -1
             ELSE 16 * HexValue(front) + last

\* C13: for a non-empty symbol emoji_to_unicode returns one piece per
\* codepoint, in order, the pieces separated by "-"; each piece is "U+"
\* followed by the codepoint's uppercase hexadecimal numeral without
\* leading zeros; the flag of two regional indicators gives
\* "U+1F1FA-U+1F1F8".
C13_WireFormat ==
    (epc \in {"encoded", "sent"} /\ symbol # <<>>) =>
        LET pieces == Split(wire, "")
        IN  /\ Len(pieces) = Len(symbol)
            /\ \A i \in 1..Len(pieces) :
                  LET numeral == SubSeq(pieces[i], 3, Len(pieces[i]))
                  IN  /\ SubSeq(pieces[i], 1, 2) = "U+"
                      /\ HexValue(numeral) = symbol[i]
                      /\ SubSeq(numeral, 1, 1) # "0"
            /\ symbol = FlagUS => wire = "U+1F1FA-U+1F1F8"

C13_Witness ==
    /\ epc = "encoded"
    /\ symbol = FlagUS
    /\ wire = "U+1F1FA-U+1F1F8"

\* C14: encoding the empty symbol yields no wire string, so no request is
\* sent whose 'emoji' member is empty.
C14_EmptySymbolNeverSent ==
    epc = "sent" => body.emoji # ""

----------------------------------------------------------------------------
(* What the listing methods are expected to do with the pages              *)

\* number of the first page without a token
LastPage == CHOOSE k \in 1..Len(pages) :
                /\ ~Truthy(pages[k].token)
                /\ \A j \in 1..(k - 1) : Truthy(pages[j].token)

RECURSIVE ItemsUpTo(_)
ItemsUpTo(k) == IF k = 0 THEN <<>> ELSE ItemsUpTo(k - 1) \o pages[k].items

\* C16: the listing methods issue one request per page, the first without
\* a token and the request for page k + 1 with the next_page_token of page
\* k, stop at the first page without a token, and return the items of the
\* fetched pages in page order, each item once.
C16_Pagination ==
    ppc \in {"loop", "returned"} =>
        /\ Len(fetched) <= LastPage
        /\ \A k \in 1..Len(fetched) :
              fetched[k] = IF k = 1 THEN None ELSE pages[k - 1].token
        /\ all_items = ItemsUpTo(Len(fetched))
        /\ \A i, j \in 1..Len(all_items) : all_items[i] = all_items[j] => i = j
        /\ ppc = "loop" => Len(fetched) < LastPage
        /\ ppc = "returned" => Len(fetched) = LastPage

C16_Witness ==
    /\ ppc = "returned"
    /\ Len(pages) = 2
    /\ Truthy(pages[1].token)
    /\ fetched = <<None, pages[1].token>>
    /\ all_items = <<Item(1, 1), Item(2, 1)>>

\* C17: once the server is bound, the listening socket is closed on every
\* way main returns: after a saved token, a failed exchange, a response
\* without access token, a callback without code, and a timed-out wait
\* with the listener thread still in handle_request.
C17_PortReleased ==
    (mpc = "returned" /\ flow # "no_credentials") =>
        /\ socket = "closed"
        /\ flow \in {"success", "http_error", "error", "no_token", "no_code"}

C17_Witness ==
    /\ mpc = "returned"
    /\ flow = "no_code"
    /\ timed_out
    /\ server_thread = "waiting"
    /\ socket = "closed"

\* C15: every reaction request that is issued carries exactly one of
\* to_contact and to_channel, whichever way the message was chosen in main.
C15_ExactlyOneTarget ==
    total > 0 =>
        ("to_contact" \in DOMAIN request) # ("to_channel" \in DOMAIN request)

\* the position of the list that the text is a decimal numeral of (0 if
\* it is none)
Position(text, list) ==
    IF \E k \in 1..Len(list) : text \in {ToString(k), "+" \o ToString(k)}
    THEN CHOOSE k \in 1..Len(list) :
            text \in {ToString(k), "+" \o ToString(k)}
    ELSE 0

\* C18: a number typed at a list of N items resolves to a target only if
\* it is in 1..N, and then to the item displayed at that position; any
\* other entry ends main without a request.
C18_IndexRangeChecked ==
    /\ (spc = "emoji" /\ choice \in {"1", "2"}) =>
          /\ Position(entry, messages) # 0
          /\ message_id = messages[Position(entry, messages)].id
    /\ spc = "msg_num_channel" =>
          /\ Position(entry, channels) # 0
          /\ to_channel = <<channels[Position(entry, channels)].id>>
    /\ (spc = "returned" /\ entry # "" /\ Position(entry, messages) = 0
        /\ choice = "1") => total = 0

====
